---- MODULE Spec2Model ----
(***************************************************************************)
(* A model of simple-esc (src/src/lib.rs): the World registry, its         *)
(* type-erased component columns (Components<T> behind dyn ComponentVec),  *)
(* and the RefCell-guarded accessors RefComponent / RefMutComponent.       *)
(*                                                                         *)
(* Indices are kept 0-based as in the source (usize); a TLA+ sequence is   *)
(* 1-based, so slot idx of a Vec is element idx + 1 of the sequence.       *)
(***************************************************************************)
EXTENDS Integers, Sequences, FiniteSets, Bags, TLC

\* ---------------------------------------------------------------- bounds

\* new_entity is called at most MaxEntities times.
MaxEntities == 2
\* At most MaxRefs accessors are alive at once.
MaxRefs == 2
\* Handles passed by the caller carry a generation in 0..MaxGen.
MaxGen == 1

\* The component types of the source (Health, Speed: lib.rs 5-9).
Types == {"Health", "Speed"}
\* Sample payloads (the i32 inside Health / Speed), as used in test_world.
Vals == {10, 20}

\* Option<T>
None == <<>>
Some(v) == <<v>>
Options == {None} \cup {Some(v) : v \in Vals}

\* Entity values a caller can pass: every id up to one past the last slot
\* that can exist, every generation up to MaxGen.
Handles == [id : 0..MaxEntities, gen : 0..MaxGen]

\* A shared (RefComponent) or exclusive (RefMutComponent) accessor.
Accessor(mut, col, idx) == [mut |-> mut, col |-> col, idx |-> idx]

VARIABLES
    entities_count,   \* World.entities_count
    component_vecs,   \* World.component_vecs: Seq of columns [ty, components, borrow]
    entities,         \* World.entities (the slot table)
    free_entities,    \* World.free_entities
    refs,             \* the live accessors (RefComponent / RefMutComponent), a bag
    result            \* the outcome of the last call

vars == <<entities_count, component_vecs, entities, free_entities, refs, result>>

\* ------------------------------------------------------------- Entity

\* Mutant: the generation is not compared.
EntityEq_id_only(a, b) == a.id = b.id

\* #[derive(PartialEq, Eq)] on Entity: both fields are compared.
EntityEq(a, b) == a.id = b.id /\ a.gen = b.gen

\* Mutant: the id is taken after entities_count was incremented.
FreshEntity_off_by_one(count) == [id |-> count + 1, gen |-> 0]

\* Mutant: a new slot starts at generation 1.
FreshEntity_gen_one(count) == [id |-> count, gen |-> 1]

\* Mutant: the id is taken from the wrong counter (the free list's length).
FreshEntity_wrong_counter(count) == [id |-> 0, gen |-> 0]

\* The entity allocated by the else-branch of new_entity.
FreshEntity(count) == [id |-> count, gen |-> 0]

\* ---------------------------------------------------------- Components<T>

\* Mutant: the new column's slots are filled with a value instead of None.
Components_new_filled(T, size) ==
    [ty |-> T, components |-> [i \in 1..size |-> Some(10)], borrow |-> 0]

\* Components::new(size): size empty slots, RefCell not borrowed.
\* borrow is the RefCell's flag: 0 unused, n > 0 shared borrows, -1 exclusive.
Components_new(T, size) ==
    [ty |-> T, components |-> [i \in 1..size |-> None], borrow |-> 0]

\* Mutant: a slot that already holds a value is left as it is.
Components_set_keep(col, idx, component) ==
    IF idx < Len(col.components)
    THEN [panic |-> FALSE,
          col |-> IF col.components[idx + 1] = None
                  THEN [col EXCEPT !.components[idx + 1] = Some(component)]
                  ELSE col]
    ELSE [panic |-> TRUE, col |-> col]

\* Mutant: an index out of bounds is ignored (get_mut(idx) and no unwrap).
Components_set_unchecked(col, idx, component) ==
    IF idx < Len(col.components)
    THEN [panic |-> FALSE,
          col |-> [col EXCEPT !.components[idx + 1] = Some(component)]]
    ELSE [panic |-> FALSE, col |-> col]

\* Mutant: the slot before idx is written (an off-by-one index).
Components_set_off_by_one(col, idx, component) ==
    IF idx < Len(col.components)
    THEN [panic |-> FALSE,
          col |-> [col EXCEPT !.components[IF idx > 0 THEN idx ELSE 1] = Some(component)]]
    ELSE [panic |-> TRUE, col |-> col]

\* Components::set(idx, component): Vec indexing panics when idx is out of
\* bounds; RefCell::get_mut needs no runtime borrow (it has &mut self).
Components_set(col, idx, component) ==
    IF idx < Len(col.components)
    THEN [panic |-> FALSE,
          col |-> [col EXCEPT !.components[idx + 1] = Some(component)]]
    ELSE [panic |-> TRUE, col |-> col]

\* Mutant: the column is not extended.
push_none_skipped(col) == col

\* ComponentVec::push_none
push_none(col) == [col EXCEPT !.components = Append(@, None)]

\* Mutant: the shared borrow is refused whenever the column is borrowed at
\* all (borrow_mut's test).
Components_get_exclusive_only(col, idx) ==
    IF col.borrow # 0
    THEN [panic |-> TRUE, col |-> col]
    ELSE [panic |-> FALSE, col |-> [col EXCEPT !.borrow = @ + 1]]

\* Mutant: the shared borrow is never refused.
Components_get_unchecked(col, idx) ==
    [panic |-> FALSE, col |-> [col EXCEPT !.borrow = IF @ < 0 THEN @ ELSE @ + 1]]

\* Components::get(idx): RefCell::borrow panics when exclusively borrowed.
Components_get(col, idx) ==
    IF col.borrow < 0
    THEN [panic |-> TRUE, col |-> col]
    ELSE [panic |-> FALSE, col |-> [col EXCEPT !.borrow = @ + 1]]

\* Mutant: the exclusive borrow is taken without looking at the flag.
Components_get_mut_unchecked(col, idx) ==
    [panic |-> FALSE, col |-> [col EXCEPT !.borrow = -1]]

\* Components::get_mut(idx): RefCell::borrow_mut panics when borrowed at all.
Components_get_mut(col, idx) ==
    IF col.borrow # 0
    THEN [panic |-> TRUE, col |-> col]
    ELSE [panic |-> FALSE, col |-> [col EXCEPT !.borrow = -1]]

\* Mutant: the downcast succeeds on every column.
Downcast_any(col, T) == TRUE

\* as_any().downcast_ref::<Components<T>>() succeeds on the column of type T.
Downcast(col, T) == col.ty = T

\* Mutant: the loop gives up after the first column.
FindColumn_first_only(vecs, T) ==
    IF Len(vecs) > 0 /\ vecs[1].ty = T THEN 1 ELSE 0

\* The loop over component_vecs: the position (1-based) of the first column
\* the downcast succeeds on, 0 when the loop ends without one.
FindColumn(vecs, T) ==
    LET S == {i \in 1..Len(vecs) : Downcast(vecs[i], T)}
    IN  IF S = {} THEN 0 ELSE CHOOSE i \in S : \A j \in S : i <= j

\* Deref for RefComponent / RefMutComponent: refer.get(idx).unwrap().
\* An accessor a is [mut, col, idx]: the column it borrows (its position in
\* component_vecs) and the slot it points at.
Deref(vecs, a) ==
    IF a.idx < Len(vecs[a.col].components)
    THEN [panic |-> FALSE, value |-> vecs[a.col].components[a.idx + 1]]
    ELSE [panic |-> TRUE, value |-> None]

\* ---------------------------------------------------------------- World

\* The check at the head of get_component / get_component_mut:
\* entities.get(entity.id) is Some(ent) and *ent == entity.
IsValid(ents, entity) ==
    /\ entity.id < Len(ents)
    /\ EntityEq(ents[entity.id + 1], entity)

NoEntity == [id |-> 0, gen |-> 0]

\* What the last call was and how it ended: outcome is "ok", "panic", or for
\* the two lookups "some" / "none"; val is the Option written, if any.
Res(op, entity, T, val, outcome) ==
    [op |-> op, entity |-> entity, ty |-> T, val |-> val, outcome |-> outcome]

\* World::new()
Init ==
    /\ entities_count = 0
    /\ component_vecs = <<>>
    /\ entities = <<>>
    /\ free_entities = <<>>
    /\ refs = EmptyBag
    /\ result = Res("new", NoEntity, "-", None, "ok")

\* Mutant: the reused entry's generation is bumped when it is handed out.
new_entity_bump ==
    /\ refs = EmptyBag
    /\ IF free_entities # <<>>
       THEN LET popped == free_entities[Len(free_entities)]
                entity == [popped EXCEPT !.gen = @ + 1]
            IN  /\ free_entities' = SubSeq(free_entities, 1, Len(free_entities) - 1)
                /\ IF entity.id < Len(entities)
                   THEN /\ entities' = [entities EXCEPT ![entity.id + 1] = entity]
                        /\ result' = Res("new_entity", entity, "-", None, "ok")
                   ELSE /\ result' = Res("new_entity", entity, "-", None, "panic")
                        /\ UNCHANGED entities
                /\ UNCHANGED <<entities_count, component_vecs>>
       ELSE LET entity == FreshEntity(entities_count)
            IN  /\ entities_count < MaxEntities
                /\ entities_count' = entities_count + 1
                /\ component_vecs' =
                       [i \in 1..Len(component_vecs) |-> push_none(component_vecs[i])]
                /\ entities' = Append(entities, entity)
                /\ result' = Res("new_entity", entity, "-", None, "ok")
                /\ UNCHANGED free_entities
    /\ UNCHANGED refs

\* World::new_entity(&mut self). It needs &mut World, so no accessor (each
\* borrows the World) is alive.
new_entity ==
    /\ refs = EmptyBag
    /\ IF free_entities # <<>>
       THEN LET entity == free_entities[Len(free_entities)]
            IN  /\ free_entities' = SubSeq(free_entities, 1, Len(free_entities) - 1)
                /\ IF entity.id < Len(entities)
                   THEN /\ entities' = [entities EXCEPT ![entity.id + 1] = entity]
                        /\ result' = Res("new_entity", entity, "-", None, "ok")
                   ELSE /\ result' = Res("new_entity", entity, "-", None, "panic")
                        /\ UNCHANGED entities
                /\ UNCHANGED <<entities_count, component_vecs>>
       ELSE LET entity == FreshEntity(entities_count)
            IN  /\ entities_count < MaxEntities
                /\ entities_count' = entities_count + 1
                /\ component_vecs' =
                       [i \in 1..Len(component_vecs) |-> push_none(component_vecs[i])]
                /\ entities' = Append(entities, entity)
                /\ result' = Res("new_entity", entity, "-", None, "ok")
                /\ UNCHANGED free_entities
    /\ UNCHANGED refs

\* Mutant: the handle is validated first, and an invalid one is ignored.
add_component_validated(entity, T, component) ==
    LET i == FindColumn(component_vecs, T)
        r == IF i # 0
             THEN Components_set(component_vecs[i], entity.id, component)
             ELSE Components_set(Components_new(T, entities_count), entity.id, component)
    IN  /\ refs = EmptyBag
        /\ IF ~IsValid(entities, entity)
           THEN /\ result' = Res("add_component_to_entity", entity, T, Some(component), "ok")
                /\ UNCHANGED component_vecs
           ELSE IF r.panic
           THEN /\ result' = Res("add_component_to_entity", entity, T, Some(component), "panic")
                /\ UNCHANGED component_vecs
           ELSE /\ result' = Res("add_component_to_entity", entity, T, Some(component), "ok")
                /\ component_vecs' =
                       IF i # 0
                       THEN [component_vecs EXCEPT ![i] = r.col]
                       ELSE Append(component_vecs, r.col)
        /\ UNCHANGED <<entities_count, entities, free_entities, refs>>

\* Mutant: the return after the set on the column found is missing, so the
\* call goes on to register a new column.
add_component_no_return(entity, T, component) ==
    LET i == FindColumn(component_vecs, T)
        r == IF i # 0
             THEN Components_set(component_vecs[i], entity.id, component)
             ELSE [panic |-> FALSE, col |-> <<>>]
        n == Components_set(Components_new(T, entities_count), entity.id, component)
    IN  /\ refs = EmptyBag
        /\ IF r.panic \/ n.panic
           THEN /\ result' = Res("add_component_to_entity", entity, T, Some(component), "panic")
                /\ component_vecs' =
                       IF i # 0 /\ ~r.panic
                       THEN [component_vecs EXCEPT ![i] = r.col]
                       ELSE component_vecs
           ELSE /\ result' = Res("add_component_to_entity", entity, T, Some(component), "ok")
                /\ component_vecs' =
                       Append(IF i # 0
                              THEN [component_vecs EXCEPT ![i] = r.col]
                              ELSE component_vecs, n.col)
        /\ UNCHANGED <<entities_count, entities, free_entities, refs>>

\* Mutant: a new column is registered before the value is set in it, so a
\* set that panics leaves the empty column behind.
add_component_push_first(entity, T, component) ==
    LET i == FindColumn(component_vecs, T)
        c == IF i # 0 THEN component_vecs[i] ELSE Components_new(T, entities_count)
        r == Components_set(c, entity.id, component)
    IN  /\ refs = EmptyBag
        /\ result' = Res("add_component_to_entity", entity, T, Some(component),
                         IF r.panic THEN "panic" ELSE "ok")
        /\ component_vecs' =
               IF i # 0
               THEN [component_vecs EXCEPT ![i] = r.col]
               ELSE Append(component_vecs, r.col)
        /\ UNCHANGED <<entities_count, entities, free_entities, refs>>

\* World::add_component_to_entity::<T>(&mut self, entity, component)
add_component_to_entity(entity, T, component) ==
    LET i == FindColumn(component_vecs, T)
        r == IF i # 0
             THEN Components_set(component_vecs[i], entity.id, component)
             ELSE Components_set(Components_new(T, entities_count), entity.id, component)
    IN  /\ refs = EmptyBag
        /\ IF r.panic
           THEN /\ result' = Res("add_component_to_entity", entity, T, Some(component), "panic")
                /\ UNCHANGED component_vecs
           ELSE /\ result' = Res("add_component_to_entity", entity, T, Some(component), "ok")
                /\ component_vecs' =
                       IF i # 0
                       THEN [component_vecs EXCEPT ![i] = r.col]
                       ELSE Append(component_vecs, r.col)
        /\ UNCHANGED <<entities_count, entities, free_entities, refs>>

AddComponentToEntity ==
    \E entity \in Handles, T \in Types, component \in Vals :
        add_component_to_entity(entity, T, component)

\* The body shared by get_component (mut = FALSE) and get_component_mut
\* (mut = TRUE), as a function of the world it is called on: validate the
\* handle, find the column, borrow it. Yields the outcome, the columns after
\* the call and the accessor returned (when the outcome is "some").
get(vecs, ents, mut, entity, T) ==
    LET i == FindColumn(vecs, T)
    IN  IF IsValid(ents, entity) /\ i # 0
        THEN LET r == IF mut
                      THEN Components_get_mut(vecs[i], entity.id)
                      ELSE Components_get(vecs[i], entity.id)
             IN  IF r.panic
                 THEN [outcome |-> "panic", vecs |-> vecs,
                       acc |-> Accessor(mut, i, entity.id)]
                 ELSE [outcome |-> "some", vecs |-> [vecs EXCEPT ![i] = r.col],
                       acc |-> Accessor(mut, i, entity.id)]
        ELSE [outcome |-> "none", vecs |-> vecs, acc |-> Accessor(mut, 0, entity.id)]

\* The call get(...) made on the current world.
call_get(op, mut, entity, T) ==
    LET g == get(component_vecs, entities, mut, entity, T)
    IN  /\ g.outcome = "some" => BagCardinality(refs) < MaxRefs
        /\ component_vecs' = g.vecs
        /\ refs' = IF g.outcome = "some" THEN refs (+) SetToBag({g.acc}) ELSE refs
        /\ result' = Res(op, entity, T, None, g.outcome)
        /\ UNCHANGED <<entities_count, entities, free_entities>>

\* World::get_component::<T>(&self, entity)
get_component(entity, T) == call_get("get_component", FALSE, entity, T)

\* World::get_component_mut::<T>(&self, entity)
get_component_mut(entity, T) == call_get("get_component_mut", TRUE, entity, T)

GetComponent == \E entity \in Handles, T \in Types : get_component(entity, T)

GetComponentMut == \E entity \in Handles, T \in Types : get_component_mut(entity, T)

\* What get_component::<T>(entity) followed by a dereference of the accessor
\* reads on the given world.
Read(vecs, ents, entity, T) ==
    LET g == get(vecs, ents, FALSE, entity, T)
    IN  IF g.outcome = "some"
        THEN IF Deref(g.vecs, g.acc).panic
             THEN [outcome |-> "panic", value |-> None]
             ELSE [outcome |-> "some", value |-> Deref(g.vecs, g.acc).value]
        ELSE [outcome |-> g.outcome, value |-> None]

\* Mutant: deref_mut hands out a copy of the slot, so the assignment is lost.
deref_mut_assign_copy(a, value) ==
    /\ a.mut
    /\ BagIn(a, refs)
    /\ result' = Res("deref_mut", [id |-> a.idx, gen |-> 0],
                     component_vecs[a.col].ty, value, "ok")
    /\ UNCHANGED <<entities_count, component_vecs, entities, free_entities, refs>>

\* DerefMut for RefMutComponent, followed by an assignment through it:
\* *accessor = value.
deref_mut_assign(a, value) ==
    /\ a.mut
    /\ BagIn(a, refs)
    /\ IF a.idx < Len(component_vecs[a.col].components)
       THEN /\ component_vecs' = [component_vecs EXCEPT ![a.col].components[a.idx + 1] = value]
            /\ result' = Res("deref_mut", [id |-> a.idx, gen |-> 0],
                             component_vecs[a.col].ty, value, "ok")
       ELSE /\ result' = Res("deref_mut", [id |-> a.idx, gen |-> 0],
                             component_vecs[a.col].ty, value, "panic")
            /\ UNCHANGED component_vecs
    /\ UNCHANGED <<entities_count, entities, free_entities, refs>>

DerefMutAssign ==
    \E a \in BagToSet(refs), value \in Options : deref_mut_assign(a, value)

\* Mutant: the accessor goes away without releasing the RefCell.
drop_leak(a) ==
    /\ BagIn(a, refs)
    /\ refs' = refs (-) SetToBag({a})
    /\ result' = Res("drop", [id |-> a.idx, gen |-> 0], component_vecs[a.col].ty, None, "ok")
    /\ UNCHANGED <<entities_count, component_vecs, entities, free_entities>>

\* An accessor goes out of scope: its Ref / RefMut releases the RefCell.
drop(a) ==
    /\ BagIn(a, refs)
    /\ refs' = refs (-) SetToBag({a})
    /\ component_vecs' =
           [component_vecs EXCEPT ![a.col].borrow = IF a.mut THEN @ + 1 ELSE @ - 1]
    /\ result' = Res("drop", [id |-> a.idx, gen |-> 0], component_vecs[a.col].ty, None, "ok")
    /\ UNCHANGED <<entities_count, entities, free_entities>>

Drop == \E a \in BagToSet(refs) : drop(a)

Next ==
    \/ new_entity
    \/ AddComponentToEntity
    \/ GetComponent
    \/ GetComponentMut
    \/ DerefMutAssign
    \/ Drop

Spec == Init /\ [][Next]_vars

\* ------------------------------------------------------ the reuse path

\* No code of the source fills free_entities, so the reuse branch of
\* new_entity is checked on worlds as the documented destroy would leave
\* them: n slots allocated with generation 0, and a free list of at most
\* MaxFree entries for distinct existing slots, each with a bumped generation.
MaxFree == 2

FreeLists(n) ==
    UNION {{f \in [1..k -> [id : 0..(n - 1), gen : 1..MaxGen]] :
                \A a, b \in 1..k : a # b => f[a].id # f[b].id} : k \in 1..MaxFree}

InitReuse ==
    \E n \in 1..MaxEntities :
        \E f \in FreeLists(n) :
            /\ entities_count = n
            /\ entities = [i \in 1..n |-> FreshEntity(i - 1)]
            /\ free_entities = f
            /\ component_vecs = <<>>
            /\ refs = EmptyBag
            /\ result = Res("new", NoEntity, "-", None, "ok")

\* The calls that take &mut self. new_entity cannot be called while an
\* accessor is alive, so the reuse branch only ever runs between them.
NextOwner ==
    \/ new_entity
    \/ AddComponentToEntity

SpecReuse == InitReuse /\ [][NextOwner]_vars

\* ------------------------------------------------- reading the state

\* The columns whose element type is T, by the column's own type.
ColumnsOf(vecs, T) == {i \in 1..Len(vecs) : vecs[i].ty = T}

\* The number of live accessors on column i.
CountOn(i) ==
    BagCardinality([a \in {b \in BagToSet(refs) : b.col = i} |-> CopiesIn(a, refs)])

\* A live exclusive accessor on column i.
ExclusiveOn(i) == \E a \in BagToSet(refs) : a.col = i /\ a.mut

\* The validity rule of the slot table, stated on the table itself.
Current(h) == h.id < Len(entities) /\ entities[h.id + 1] = h

Lookups == {"get_component", "get_component_mut"}

\* The content of slot idx of T's column; None when T has no column.
SlotOf(vecs, T, idx) ==
    IF \E i \in ColumnsOf(vecs, T) : idx < Len(vecs[i].components)
    THEN LET i == CHOOSE i \in ColumnsOf(vecs, T) : idx < Len(vecs[i].components)
         IN  vecs[i].components[idx + 1]
    ELSE None

\* --------------------------------------------------------------- claims

\* C1: every registered column is as long as entities_count, which is also
\* the length of the slot table, in every reachable state (in particular
\* right after each new_entity), so a valid entity's index is in range of
\* every column.
C1_ColumnLengths ==
    /\ Len(entities) = entities_count
    /\ \A i \in 1..Len(component_vecs) :
           Len(component_vecs[i].components) = entities_count
    /\ \A h \in Handles, i \in 1..Len(component_vecs) :
           Current(h) => h.id < Len(component_vecs[i].components)

\* new_entity has just returned the second entity with both columns registered.
C1_Witness ==
    /\ result.op = "new_entity"
    /\ entities_count = 2
    /\ Len(component_vecs) = 2

\* C2: after add_component_to_entity(e, v) on a valid e, get_component::<T>(e)
\* returns an accessor that reads Some(v).
C2_RoundTrip ==
    (/\ result.op = "add_component_to_entity"
     /\ result.outcome = "ok"
     /\ Current(result.entity))
    => Read(component_vecs, entities, result.entity, result.ty)
           = [outcome |-> "some", value |-> result.val]

\* An attach of 20 to the second entity has just succeeded on a world with
\* both columns.
C2_Witness ==
    /\ result.op = "add_component_to_entity"
    /\ result.outcome = "ok"
    /\ Current(result.entity)
    /\ result.entity.id = 1
    /\ result.val = Some(20)
    /\ Len(component_vecs) = 2

\* C3: an attach of type T changes, for every other type U and every handle,
\* neither what get_component::<U> reads nor whether a column for U exists.
C3_TypeIsolation ==
    [][result'.op = "add_component_to_entity"
       => \A U \in Types \ {result'.ty} :
              /\ (ColumnsOf(component_vecs', U) = {}) = (ColumnsOf(component_vecs, U) = {})
              /\ \A h \in Handles :
                     Read(component_vecs', entities', h, U)
                         = Read(component_vecs, entities, h, U)]_vars

\* An attach has just succeeded on an entity that carries a value of the
\* other type.
C3_Witness ==
    /\ result.op = "add_component_to_entity"
    /\ result.outcome = "ok"
    /\ \E U \in Types \ {result.ty} :
           Read(component_vecs, entities, entities[result.entity.id + 1], U).value # None

\* C4: a handle that is out of range or differs from the slot table's record
\* makes get_component and get_component_mut return None for every type,
\* never a fault; the current handle never reads None where a column exists,
\* and what it reads is the slot's content.
C4_StaleRejected ==
    /\ (result.op \in Lookups /\ ~Current(result.entity)) => result.outcome = "none"
    /\ \A h \in Handles, T \in Types, mut \in BOOLEAN :
           ~Current(h) => get(component_vecs, entities, mut, h, T).outcome = "none"
    /\ \A h \in Handles, T \in Types :
           Current(h) =>
               \A i \in ColumnsOf(component_vecs, T) :
                   LET r == Read(component_vecs, entities, h, T)
                   IN  /\ r.outcome # "none"
                       /\ r.outcome = "some" =>
                              r.value = component_vecs[i].components[h.id + 1]

\* get_component has just returned None for a handle of the wrong generation
\* whose slot holds a value of the type asked for.
C4_Witness ==
    /\ result.op = "get_component"
    /\ result.outcome = "none"
    /\ result.entity.gen # 0
    /\ result.entity.id < Len(entities)
    /\ \E i \in ColumnsOf(component_vecs, result.ty) :
           component_vecs[i].components[result.entity.id + 1] # None

\* C5: an exclusive accessor never coexists with another accessor on its
\* column, and get_component_mut on a column that has a live exclusive
\* accessor panics.
C5_Exclusivity ==
    /\ \A i \in 1..Len(component_vecs) : ExclusiveOn(i) => CountOn(i) = 1
    /\ \A h \in Handles, T \in Types :
           \A i \in ColumnsOf(component_vecs, T) :
               (Current(h) /\ ExclusiveOn(i))
               => get(component_vecs, entities, TRUE, h, T).outcome = "panic"

\* get_component_mut has just panicked on a column with a live exclusive
\* accessor.
C5_Witness ==
    /\ result.op = "get_component_mut"
    /\ result.outcome = "panic"
    /\ \E i \in ColumnsOf(component_vecs, result.ty) : ExclusiveOn(i)

\* C6: add_component_to_entity accepts any handle whose id is below
\* entities_count, whatever its generation, and writes Some(v) into that slot
\* of T's column; the slot's current handle then reads it.
C6_AttachUnvalidated ==
    (result.op = "add_component_to_entity" /\ result.entity.id < entities_count)
    => /\ result.outcome = "ok"
       /\ \E i \in ColumnsOf(component_vecs, result.ty) :
              component_vecs[i].components[result.entity.id + 1] = result.val
       /\ Read(component_vecs, entities, entities[result.entity.id + 1], result.ty)
              = [outcome |-> "some", value |-> result.val]

\* An attach through a handle of the wrong generation has just succeeded.
C6_Witness ==
    /\ result.op = "add_component_to_entity"
    /\ result.outcome = "ok"
    /\ result.entity.id < entities_count
    /\ ~Current(result.entity)

\* C7: add_component_to_entity panics whenever the handle's id is not below
\* entities_count, with or without a column for T.
C7_AttachOutOfBounds ==
    (result.op = "add_component_to_entity" /\ result.entity.id >= entities_count)
    => result.outcome = "panic"

\* An attach with an id out of range has just panicked on a world that has a
\* column for the type and at least one entity.
C7_Witness ==
    /\ result.op = "add_component_to_entity"
    /\ result.outcome = "panic"
    /\ result.entity.id >= entities_count
    /\ entities_count > 0
    /\ ColumnsOf(component_vecs, result.ty) # {}

\* C8: no two columns have the same element type, and the number of columns
\* grows by one exactly on a successful attach of a type that has no column,
\* starting from none: it is the number of types attached so far.
C8_OneColumnPerType ==
    /\ [](\A T \in Types : Cardinality(ColumnsOf(component_vecs, T)) <= 1)
    /\ [][/\ Len(component_vecs') = Len(component_vecs)
                  + (IF /\ result'.op = "add_component_to_entity"
                        /\ result'.outcome = "ok"
                        /\ ColumnsOf(component_vecs, result'.ty) = {}
                     THEN 1 ELSE 0)
          /\ \A i \in 1..Len(component_vecs) :
                 component_vecs'[i].ty = component_vecs[i].ty]_vars

\* An attach has just succeeded on a world with a column for each type.
C8_Witness ==
    /\ result.op = "add_component_to_entity"
    /\ result.outcome = "ok"
    /\ \A T \in Types : ColumnsOf(component_vecs, T) # {}

\* C9, as stated: for a valid entity the two lookups return an accessor if
\* and only if a column for T is registered, and None when there is none.
C9_SomeIffColumn ==
    (result.op \in Lookups /\ Current(result.entity))
    => /\ (result.outcome = "some") = (ColumnsOf(component_vecs, result.ty) # {})
       /\ ColumnsOf(component_vecs, result.ty) = {} => result.outcome = "none"

\* C9, amended: for a valid entity the two lookups return None if and only if
\* no column for T is registered; with a column they return an accessor at
\* slot e.id of that column, unless the column's borrow conflicts (an
\* exclusive accessor alive, or any accessor alive for get_component_mut),
\* and then the call panics.
C9_SomeOrFault ==
    /\ (result.op \in Lookups /\ Current(result.entity))
       => /\ (result.outcome = "none") = (ColumnsOf(component_vecs, result.ty) = {})
          /\ result.outcome = "some" =>
                 \E i \in ColumnsOf(component_vecs, result.ty) :
                     BagIn(Accessor(result.op = "get_component_mut", i, result.entity.id), refs)
          /\ result.outcome = "panic" =>
                 \E i \in ColumnsOf(component_vecs, result.ty) :
                     IF result.op = "get_component_mut"
                     THEN CountOn(i) > 0
                     ELSE ExclusiveOn(i)
    /\ \A h \in Handles, T \in Types :
           \A i \in ColumnsOf(component_vecs, T) :
               Current(h) =>
                   /\ get(component_vecs, entities, FALSE, h, T).outcome
                          = IF ExclusiveOn(i) THEN "panic" ELSE "some"
                   /\ get(component_vecs, entities, TRUE, h, T).outcome
                          = IF CountOn(i) > 0 THEN "panic" ELSE "some"

\* get_component_mut has just returned an accessor for the second entity.
C9_Witness ==
    /\ result.op = "get_component_mut"
    /\ result.outcome = "some"
    /\ Current(result.entity)
    /\ result.entity.id = 1

\* C10: slot_table[i].index = i for every slot.
C10_SlotIndex ==
    \A i \in 1..Len(entities) : entities[i].id = i - 1

\* new_entity has just appended the second slot.
C10_Witness ==
    /\ result.op = "new_entity"
    /\ Len(entities) = 2
    /\ result.entity = entities[2]

\* C11: the free list is empty in every reachable state, and each new_entity
\* call returns Entity{id: entities_count, gen: 0}, increments entities_count
\* by exactly one (no other call changes it, so the k-th call returns id k-1),
\* appends the handle to the slot table and one empty slot to every column.
C11_FreshSlot ==
    /\ entities_count = 0
    /\ [](free_entities = <<>>)
    /\ [][IF result'.op = "new_entity"
          THEN /\ result'.outcome = "ok"
               /\ result'.entity = [id |-> entities_count, gen |-> 0]
               /\ entities_count' = entities_count + 1
               /\ entities' = Append(entities, result'.entity)
               /\ Len(component_vecs') = Len(component_vecs)
               /\ \A i \in 1..Len(component_vecs) :
                      component_vecs'[i] =
                          [component_vecs[i] EXCEPT !.components = Append(@, None)]
          ELSE entities_count' = entities_count]_vars

\* The second new_entity call has just returned Entity{id: 1, gen: 0} on a
\* world whose first entity carries a component.
C11_Witness ==
    /\ result.op = "new_entity"
    /\ result.entity = [id |-> 1, gen |-> 0]
    /\ entities_count = 2
    /\ \E i \in 1..Len(component_vecs) :
           component_vecs[i].components = <<Some(10), None>>

\* C12: a value written through the exclusive accessor is in the slot, and
\* when the exclusive accessor is dropped get_component on the slot's entity
\* returns an accessor that reads what the slot held under the accessor.
C12_WriteThenRead ==
    /\ []((result.op = "deref_mut" /\ result.outcome = "ok")
          => /\ SlotOf(component_vecs, result.ty, result.entity.id) = result.val
             /\ \E i \in ColumnsOf(component_vecs, result.ty) :
                    BagIn(Accessor(TRUE, i, result.entity.id), refs))
    /\ [][result'.op = "drop"
          => \A a \in BagToSet(refs) :
                 (a.mut /\ refs' = refs (-) SetToBag({a}))
                 => Read(component_vecs', entities', entities[a.idx + 1],
                         component_vecs[a.col].ty)
                        = [outcome |-> "some",
                           value |-> component_vecs[a.col].components[a.idx + 1]]]_vars

\* Some(20) has just been written through the exclusive accessor on the
\* second entity's Speed.
C12_Witness ==
    /\ result.op = "deref_mut"
    /\ result.outcome = "ok"
    /\ result.ty = "Speed"
    /\ result.entity.id = 1
    /\ result.val = Some(20)

\* C13: a slot's content changes only by a successful attach of that type at
\* that index or by a write through an exclusive accessor at that index;
\* every slot starts empty (no column, a pre-sized new column, a back-filled
\* slot), so a component never attached reads as absent: get_component on a
\* valid entity returns no accessor, or one that reads the slot's None.
C13_NeverAttachedAbsent ==
    /\ component_vecs = <<>>
    /\ [][\A T \in Types, idx \in 0..MaxEntities :
              SlotOf(component_vecs', T, idx) # SlotOf(component_vecs, T, idx)
              => /\ result'.op \in {"add_component_to_entity", "deref_mut"}
                 /\ result'.outcome = "ok"
                 /\ result'.ty = T
                 /\ result'.entity.id = idx]_vars
    /\ [](\A h \in Handles, T \in Types :
              Current(h) =>
                  LET r == Read(component_vecs, entities, h, T)
                  IN  /\ r.outcome = "some" => r.value = SlotOf(component_vecs, T, h.id)
                      /\ ColumnsOf(component_vecs, T) = {} => r.outcome = "none")

\* The example: the first entity has a Health and no Speed, the second has a
\* Speed, and get_component::<Speed>(first) has just returned an accessor
\* that reads None.
C13_Witness ==
    /\ result.op = "get_component"
    /\ result.outcome = "some"
    /\ result.ty = "Speed"
    /\ result.entity = [id |-> 0, gen |-> 0]
    /\ entities_count = 2
    /\ SlotOf(component_vecs, "Health", 0) # None
    /\ SlotOf(component_vecs, "Speed", 1) # None
    /\ Read(component_vecs, entities, result.entity, "Speed")
           = [outcome |-> "some", value |-> None]

\* C14: get_component on a valid entity succeeds however many shared
\* accessors are alive on T's column (the column's flag counts them), and
\* panics when an exclusive accessor on T's column is alive.
C14_SharedDiscipline ==
    /\ \A i \in 1..Len(component_vecs) :
           ~ExclusiveOn(i) => component_vecs[i].borrow = CountOn(i)
    /\ \A h \in Handles, T \in Types :
           \A i \in ColumnsOf(component_vecs, T) :
               Current(h) =>
                   (get(component_vecs, entities, FALSE, h, T).outcome = "panic")
                       = ExclusiveOn(i)
    /\ (result.op = "get_component" /\ Current(result.entity))
       => \A i \in ColumnsOf(component_vecs, result.ty) :
              /\ result.outcome = "some" => (~ExclusiveOn(i) /\ CountOn(i) >= 1)
              /\ result.outcome = "panic" => ExclusiveOn(i)
              /\ result.outcome # "none"

\* get_component has just returned a second shared accessor on a column.
C14_Witness ==
    /\ result.op = "get_component"
    /\ result.outcome = "some"
    /\ \E i \in ColumnsOf(component_vecs, result.ty) :
           CountOn(i) = 2 /\ component_vecs[i].borrow = 2

\* C15: a column's lock is held exactly while accessors on it are alive (its
\* flag is -1 under an exclusive accessor and the number of shared accessors
\* otherwise), each drop releases one hold, and on a column with no live
\* accessor get_component and get_component_mut succeed for every valid
\* entity: no lock outlives its accessors.
C15_ScopedGuards ==
    /\ [](\A i \in 1..Len(component_vecs) :
              /\ component_vecs[i].borrow = IF ExclusiveOn(i) THEN -1 ELSE CountOn(i)
              /\ CountOn(i) = 0 =>
                     \A h \in Handles, mut \in BOOLEAN :
                         Current(h) =>
                             get(component_vecs, entities, mut, h,
                                 component_vecs[i].ty).outcome = "some")
    /\ [][result'.op = "drop"
          => /\ BagCardinality(refs') = BagCardinality(refs) - 1
             /\ \E i \in 1..Len(component_vecs) :
                    /\ component_vecs'[i].borrow # component_vecs[i].borrow
                    /\ component_vecs[i].borrow # 0
                    /\ \A j \in 1..Len(component_vecs) \ {i} :
                           component_vecs'[j] = component_vecs[j]]_vars

\* The last live accessor has just been dropped and both columns are free.
C15_Witness ==
    /\ result.op = "drop"
    /\ refs = EmptyBag
    /\ Len(component_vecs) = 2
    /\ \A i \in 1..Len(component_vecs) : component_vecs[i].borrow = 0
    /\ entities_count = 2

\* C16: when the free list is not empty, new_entity pops its last entry,
\* stores it in the slot table at the entry's index and returns it unchanged;
\* entities_count, the slot table's length and every column stay as they were.
C16_ReusePath ==
    [][(result'.op = "new_entity" /\ free_entities # <<>>)
       => LET e == free_entities[Len(free_entities)]
          IN  /\ result'.outcome = "ok"
              /\ result'.entity = e
              /\ free_entities' = SubSeq(free_entities, 1, Len(free_entities) - 1)
              /\ entities' = [entities EXCEPT ![e.id + 1] = e]
              /\ Len(entities') = Len(entities)
              /\ entities_count' = entities_count
              /\ component_vecs' = component_vecs]_vars

\* new_entity has just reused a freed slot of a world with a component
\* attached, and another free entry is left.
C16_Witness ==
    /\ result.op = "new_entity"
    /\ result.outcome = "ok"
    /\ result.entity.gen > 0
    /\ entities[result.entity.id + 1] = result.entity
    /\ free_entities # <<>>
    /\ \E i \in 1..Len(component_vecs) :
           \E j \in 1..Len(component_vecs[i].components) :
               component_vecs[i].components[j] # None

\* C17: an attach that panics leaves the registry as it was: no column is
\* registered, no slot changes, entities_count, the slot table and the free
\* list are unchanged.
C17_FailedAttachNoChange ==
    [][(result'.op = "add_component_to_entity" /\ result'.outcome = "panic")
       => /\ result'.entity.id >= entities_count
          /\ component_vecs' = component_vecs
          /\ entities_count' = entities_count
          /\ entities' = entities
          /\ free_entities' = free_entities
          /\ refs' = refs]_vars

\* An attach of a type that has no column has just panicked on a world with
\* an entity and a column of the other type: no column was added.
C17_Witness ==
    /\ result.op = "add_component_to_entity"
    /\ result.outcome = "panic"
    /\ entities_count > 0
    /\ ColumnsOf(component_vecs, result.ty) = {}
    /\ Len(component_vecs) = 1

\* C18: an attach of type T through a handle with index idx changes no slot of
\* T's column other than idx (a column it creates holds None everywhere
\* else), and leaves entities_count, the slot table and the free list alone.
C18_EntityIsolation ==
    [][result'.op = "add_component_to_entity"
       => /\ \A j \in 0..MaxEntities :
                 j # result'.entity.id
                 => SlotOf(component_vecs', result'.ty, j)
                        = SlotOf(component_vecs, result'.ty, j)
          /\ \A i \in ColumnsOf(component_vecs, result'.ty) :
                 /\ component_vecs'[i].ty = result'.ty
                 /\ Len(component_vecs'[i].components) = Len(component_vecs[i].components)
          /\ entities_count' = entities_count
          /\ entities' = entities
          /\ free_entities' = free_entities]_vars

\* An attach to the second entity has just succeeded while the first entity
\* keeps a different value of the same type.
C18_Witness ==
    /\ result.op = "add_component_to_entity"
    /\ result.outcome = "ok"
    /\ result.entity.id = 1
    /\ result.val = Some(20)
    /\ SlotOf(component_vecs, result.ty, 0) = Some(10)
    /\ SlotOf(component_vecs, result.ty, 1) = Some(20)

\* C19: the lock is the column's: while an exclusive accessor on T's column is
\* alive, get_component::<T> and get_component_mut::<T> panic for every valid
\* entity, not only the accessor's; and a lookup of T only ever panics because
\* of accessors on T's own column, never because of another column's.
C19_ColumnLock ==
    /\ \A a \in BagToSet(refs) :
           a.mut =>
               \A h \in Handles, mut \in BOOLEAN :
                   Current(h) =>
                       get(component_vecs, entities, mut, h,
                           component_vecs[a.col].ty).outcome = "panic"
    /\ \A h \in Handles, T \in Types, mut \in BOOLEAN :
           get(component_vecs, entities, mut, h, T).outcome = "panic"
           => \E i \in ColumnsOf(component_vecs, T) : CountOn(i) > 0
    /\ (result.op \in Lookups /\ result.outcome = "panic")
       => \E i \in ColumnsOf(component_vecs, result.ty) : CountOn(i) > 0

\* get_component has just panicked for an entity other than the one the live
\* exclusive accessor on that column points at, while the accessor on the
\* other column stayed alive.
C19_Witness ==
    /\ result.op = "get_component"
    /\ result.outcome = "panic"
    /\ Current(result.entity)
    /\ \E a \in BagToSet(refs) :
           /\ a.mut
           /\ component_vecs[a.col].ty = result.ty
           /\ a.idx # result.entity.id
    /\ \E b \in BagToSet(refs) : component_vecs[b.col].ty # result.ty

\* C20: the handle new_entity returns is valid when it is returned, a valid
\* handle stays valid in every later state, and the handle returned differs
\* from every handle valid before the call (so from every handle returned
\* before).
C20_HandleStable ==
    /\ [](result.op = "new_entity" => (result.outcome = "ok" /\ Current(result.entity)))
    /\ [][\A h \in Handles :
              (h.id < Len(entities) /\ entities[h.id + 1] = h)
              => (h.id < Len(entities') /\ entities'[h.id + 1] = h)]_vars
    /\ [][result'.op = "new_entity"
          => /\ result'.entity \in Handles
             /\ ~Current(result'.entity)]_vars

\* The second handle has been returned, the first is still valid, and calls
\* have been made since.
C20_Witness ==
    /\ Len(entities) = 2
    /\ Current([id |-> 0, gen |-> 0])
    /\ Current([id |-> 1, gen |-> 0])
    /\ result.op = "drop"
    /\ Len(component_vecs) = 2

====
